---- MODULE Spec2Model ----
(***************************************************************************)
(* Model of the matching-and-drafting pipeline of LegalDocAI               *)
(* (backend/app/services/draft_service.py and the records of               *)
(* backend/app/models/template.py).                                        *)
(*                                                                         *)
(* Text is a sequence of one-character strings, so that str.replace is     *)
(* modelled on characters.  A nullable column is a sequence of length at   *)
(* most one: <<>> is NULL, <<x>> holds x.  A Python dict is a sequence of  *)
(* <<key, value>> pairs with distinct keys, in insertion order.            *)
(***************************************************************************)
EXTENDS Integers, Sequences, FiniteSets, TLC

VARIABLES
    db,        \* draft_instances table: instance id -> row
    last,      \* the last request handled: what it was and how it ended
    sess,      \* requests in flight (SpecConc): slot -> session state
    library,   \* templates table as db.query(Template).all() lists it
    settings,  \* the cached Settings object
    m,         \* the last match_template call: its inputs and its result
    ing        \* the ingestion (process_uploaded_document) in progress

vars == <<db, last, sess, library, settings, m, ing>>
matchVars == <<library, settings, m>>

----------------------------------------------------------------------------
(* Bounds and input universes *)

MaxInstances == 1

\* the most keys one request's answers (or one prefill) carry
MaxPartialKeys == 2

\* requests that may be in flight at once (SpecConc)
MaxSessions == 2

\* the most templates the library holds (SpecMatch)
MaxTemplates == 6

\* the most templates the library holds when the ranking is checked
\* (SpecRank)
MaxRankTemplates == 7

\* the longest document ingested, in characters (SpecIngest)
MaxTextLen == 5

\* the largest chunk size a deployment sets (SpecIngest)
MaxChunkSize == 3

InstanceIds == 1..MaxInstances
\* ids a request may name: the ids that can be stored, and one that never is
RequestIds == 1..(MaxInstances + 1)

TemplateIds == {"t1"}
\* template ids a request may name; "t0" is not stored
RequestTemplateIds == TemplateIds \cup {"t0"}

Keys == {"a", "b"}

\* the {{key}} token of a key, as f"{{{{{key}}}}}" builds it
Token(key) == <<"{", "{", key, "}", "}">>

\* JSON answer values: <<"s", text>> is a string, <<"n", i>> a number
Values == { <<"n", 7>>, <<"s", Token("b")>> }

\* the text of each template's file (template.file_path)
FileText(t) == <<"H">> \o Token("a") \o <<",">> \o Token("b") \o Token("c")

None == <<>>
Some(x) == <<x>>

----------------------------------------------------------------------------
(* Python dicts, insertion ordered *)

RECURSIVE DictHas(_, _)
DictHas(d, k) ==
    IF d = <<>> THEN FALSE
    ELSE IF Head(d)[1] = k THEN TRUE ELSE DictHas(Tail(d), k)

RECURSIVE DictGet(_, _)
DictGet(d, k) ==
    IF Head(d)[1] = k THEN Head(d)[2] ELSE DictGet(Tail(d), k)

DictKeys(d) == { d[i][1] : i \in 1..Len(d) }

\* d[k] = v: an existing key keeps its position, a new key is appended
DictSet(d, k, v) ==
    IF DictHas(d, k)
    THEN [i \in 1..Len(d) |-> IF d[i][1] = k THEN <<k, v>> ELSE d[i]]
    ELSE Append(d, <<k, v>>)

\* current.update(new_answers)
RECURSIVE DictUpdate(_, _)
DictUpdate(d, new) ==
    IF new = <<>> THEN d
    ELSE DictUpdate(DictSet(d, Head(new)[1], Head(new)[2]), Tail(new))

\* every dict over Keys with values in Values, in every insertion order
Dicts ==
    { d \in UNION { [1..n -> Keys \X Values] : n \in 0..Cardinality(Keys) } :
        \A i, j \in 1..Len(d) : i # j => d[i][1] # d[j][1] }

\* the answers a request carries, and what the prefill oracle may return
Partials == { d \in Dicts : Len(d) <= MaxPartialKeys }

----------------------------------------------------------------------------
(* DraftInstance (models/template.py) *)

\* json.dumps / json.loads of the answers column: the column holds the
\* serialised text, a tagged copy of the pairs in order
json_dumps(d) == <<"json", d>>
json_loads(text) == text[2]

get_answers(row) ==
    IF row.answers # None THEN json_loads(row.answers[1]) ELSE <<>>

set_answers(row, answers_dict) ==
    [row EXCEPT !.answers = Some(json_dumps(answers_dict))]

update_answers_dropping(row, new_answers) ==
    set_answers(row, new_answers)

update_answers(row, new_answers) ==
    set_answers(row, DictUpdate(get_answers(row), new_answers))

----------------------------------------------------------------------------
(* Rendering (DraftService.generate_draft, lines 164-166) *)

\* str(value)
Str(value) == IF value[1] = "n" THEN <<ToString(value[2])>> ELSE value[2]

IsPrefixAt(s, i, old) ==
    /\ i + Len(old) - 1 <= Len(s)
    /\ \A j \in 1..Len(old) : s[i + j - 1] = old[j]

\* s.replace(old, new) from position i on: left to right, non-overlapping,
\* the inserted text is not scanned again
RECURSIVE ReplaceFrom(_, _, _, _)
ReplaceFrom(s, i, old, new) ==
    IF i > Len(s) THEN <<>>
    ELSE IF IsPrefixAt(s, i, old)
         THEN new \o ReplaceFrom(s, i + Len(old), old, new)
         ELSE <<s[i]>> \o ReplaceFrom(s, i + 1, old, new)

Replace(s, old, new) == ReplaceFrom(s, 1, old, new)

\* for key, value in answers.items(): draft_content = draft_content.replace(...)
RECURSIVE RenderLoop(_, _)
RenderLoop(content, items) ==
    IF items = <<>> THEN content
    ELSE RenderLoop(Replace(content, Token(Head(items)[1]), Str(Head(items)[2])),
                    Tail(items))

----------------------------------------------------------------------------
(* The session (core/database.py): commit writes the columns the request   *)
(* changed; a request that raises is closed without commit                 *)

Columns == {"template", "answers", "draft_md", "draft_docx_path", "status"}

\* db.commit(): the UPDATE carries the columns whose value differs from the
\* value the session loaded
Flush(stored, loaded, cur) ==
    [c \in Columns |-> IF cur[c] # loaded[c] THEN cur[c] ELSE stored[c]]

DocxPath(id) == <<"uploads", id>>

\* the record of a handled request: the operation, the ids it named, how it
\* ended, the answers it carried, the oracles it called and what get returned
\* (pre: the status the instance had when the request found it)
NoRequest ==
    [op |-> "none", id |-> 0, tid |-> "", outcome |-> "", arg |-> <<>>,
     pre |-> "", calls |-> <<>>, ret |-> None]

Request(op, id, tid, outcome, arg, pre, calls, ret) ==
    [op |-> op, id |-> id, tid |-> tid, outcome |-> outcome, arg |-> arg,
     pre |-> pre, calls |-> calls, ret |-> ret]

----------------------------------------------------------------------------
(* Settings (core/config.py).  Confidences and the threshold are in tenths. *)

MIN_CONFIDENCE_THRESHOLD == 7

\* EXA_API_KEY is "" unless the environment sets it
DefaultSettings ==
    [EXA_API_KEY |-> FALSE, MIN_CONFIDENCE_THRESHOLD |-> MIN_CONFIDENCE_THRESHOLD]

\* the settings a deployment may run with: the search key set or not, the
\* threshold left at its default or set in the environment
SettingsChoices ==
    [EXA_API_KEY : BOOLEAN,
     MIN_CONFIDENCE_THRESHOLD : {0, MIN_CONFIDENCE_THRESHOLD}]

NoMatch ==
    [outcome |-> "none", include_web_search |-> FALSE, query |-> <<0, 0>>,
     llm |-> <<>>, top |-> <<>>, best_match |-> None, confidence |-> 0,
     alternatives |-> <<>>, web_results |-> <<>>, message |-> "",
     calls |-> <<>>]

\* no document is being ingested
NoIngestion ==
    [pc |-> "idle", text |-> <<>>, chunk_size |-> 0, overlap |-> 0,
     start |-> 0, chunks |-> <<>>, starts |-> <<>>, i |-> 0,
     all_variables |-> <<>>, doc_type |-> "unknown", jurisdiction |-> "",
     tags |-> <<>>, calls |-> <<>>, template |-> None]

----------------------------------------------------------------------------
(* DraftService (services/draft_service.py), one request at a time *)

\* the DraftInstance create_draft_instance builds (lines 117-123)
NewInstance(tid, prefilled) ==
    set_answers([template |-> tid, answers |-> None, draft_md |-> None,
                 draft_docx_path |-> None, status |-> "pending"], prefilled)

\* db.query(Template).filter(Template.template_id == template_id).first()
\* finds a template (lines 107-108)
TemplateFoundAlways(tid) == TRUE

TemplateFound(tid) == tid \in TemplateIds

\* instance_id = str(uuid.uuid4()): an id no stored instance has
FreshId == Cardinality(DOMAIN db) + 1

\* create_draft_instance(template_id, query, db); prefilled is what the
\* prefill oracle answers
CreateDraftInstance(tid, prefilled) ==
    /\ IF ~TemplateFound(tid)
       THEN /\ last' = Request("create", 0, tid, "not_found", <<>>, "", <<>>, None)
            /\ UNCHANGED db
       ELSE /\ FreshId \in InstanceIds
            /\ db' = [i \in DOMAIN db \cup {FreshId} |->
                        IF i = FreshId THEN NewInstance(tid, prefilled) ELSE db[i]]
            /\ last' = Request("create", FreshId, tid, "ok", prefilled, "",
                               <<"prefill_variables", "generate_questions">>,
                               None)
    /\ UNCHANGED <<sess, matchVars, ing>>

\* what update_answers leaves in the session before db.commit() (143-144)
UpdateAnswersGuarded(loaded, answers) ==
    [update_answers(loaded, answers) EXCEPT
        !.status = IF loaded.status = "completed" THEN "completed"
                   ELSE "in_progress"]

UpdateAnswersInSession(loaded, answers) ==
    [update_answers(loaded, answers) EXCEPT !.status = "in_progress"]

\* update_answers(instance_id, answers, db)
UpdateAnswers(id, answers) ==
    /\ IF id \notin DOMAIN db
       THEN /\ last' = Request("update_answers", id, "", "not_found", <<>>,
                               "", <<>>, None)
            /\ UNCHANGED db
       ELSE LET loaded == db[id]
                cur == UpdateAnswersInSession(loaded, answers)
            IN  /\ db' = [db EXCEPT ![id] = Flush(db[id], loaded, cur)]
                /\ last' = Request("update_answers", id, "", "ok", answers,
                                   loaded.status, <<>>, None)
    /\ UNCHANGED <<sess, matchVars, ing>>

\* draft_content after the replace loop (lines 164-166)
DraftContentFromDraft(loaded) ==
    RenderLoop(IF loaded.draft_md # None THEN loaded.draft_md[1]
               ELSE FileText(loaded.template),
               get_answers(loaded))

DraftContent(loaded) ==
    RenderLoop(FileText(loaded.template), get_answers(loaded))

\* what generate_draft leaves in the session before the DOCX is written
\* (lines 168-169)
GenerateInSessionKeepingDraft(loaded) ==
    [loaded EXCEPT !.draft_md = IF loaded.draft_md # None THEN loaded.draft_md
                                 ELSE Some(DraftContent(loaded)),
                   !.status = "completed"]

GenerateInSession(loaded) ==
    [loaded EXCEPT !.draft_md = Some(DraftContent(loaded)),
                   !.status = "completed"]

\* the row left stored when generate_draft raises after line 169: nothing
\* was committed, and get_db closes the session
AfterFailureCommitted(stored, loaded) ==
    Flush(stored, loaded, GenerateInSession(loaded))

AfterFailure(stored, loaded) ==
    stored

\* generate_draft(instance_id, db); fileOk: open(template.file_path) succeeds,
\* docxOk: generate_docx_from_markdown succeeds
GenerateDraft(id, fileOk, docxOk) ==
    /\ IF id \notin DOMAIN db
       THEN /\ last' = Request("generate", id, "", "not_found", <<>>, "", <<>>, None)
            /\ UNCHANGED db
       ELSE LET loaded == db[id]
                cur == [GenerateInSession(loaded) EXCEPT
                           !.draft_docx_path = Some(DocxPath(id))]
            IN  IF ~fileOk
                THEN /\ last' = Request("generate", id, "", "file_missing", <<>>,
                                        loaded.status, <<>>, None)
                     /\ UNCHANGED db
                ELSE IF ~docxOk
                THEN /\ db' = [db EXCEPT ![id] = AfterFailure(db[id], loaded)]
                     /\ last' = Request("generate", id, "", "render_failed", <<>>,
                                        loaded.status, <<>>, None)
                ELSE /\ db' = [db EXCEPT ![id] = Flush(db[id], loaded, cur)]
                     /\ last' = Request("generate", id, "", "ok", <<>>,
                                        loaded.status, <<>>, None)
    /\ UNCHANGED <<sess, matchVars, ing>>

\* get_instance(instance_id, db)
GetInstance(id) ==
    /\ IF id \notin DOMAIN db
       THEN last' = Request("get", id, "", "not_found", <<>>, "", <<>>, None)
       ELSE last' = Request("get", id, "", "ok", <<>>, db[id].status, <<>>,
                            Some(db[id]))
    /\ UNCHANGED <<db, sess, matchVars, ing>>

Init ==
    /\ db = <<>>
    /\ last = NoRequest
    /\ sess = <<>>
    /\ library = <<>>
    /\ settings = DefaultSettings
    /\ m = NoMatch
    /\ ing = NoIngestion

Next ==
    \/ \E tid \in RequestTemplateIds, prefilled \in Partials :
          CreateDraftInstance(tid, prefilled)
    \/ \E id \in RequestIds, answers \in Partials : UpdateAnswers(id, answers)
    \/ \E id \in RequestIds, fileOk \in BOOLEAN, docxOk \in BOOLEAN :
          GenerateDraft(id, fileOk, docxOk)
    \/ \E id \in RequestIds : GetInstance(id)

Spec == Init /\ [][Next]_vars

----------------------------------------------------------------------------
(* Overlapping requests (SpecConc).  Each request has a session of its own  *)
(* (get_db): it loads the row with its query, changes its own copy, and      *)
(* db.commit() writes the changed columns.  Requests of different server     *)
(* processes interleave between the query and the commit.                    *)

Slots == 1..MaxSessions

Idle ==
    [pc |-> "idle", op |-> "none", id |-> 0, arg |-> <<>>, loaded |-> None,
     order |-> 0]

Committed == { s \in Slots : sess[s].pc = "done" }

\* update_answers, line 139: the query
BeginUpdateAnswers(s, id, answers) ==
    /\ sess[s].pc = "idle"
    /\ id \in DOMAIN db
    /\ sess' = [sess EXCEPT ![s] =
                  [pc |-> "loaded", op |-> "update_answers", id |-> id,
                   arg |-> answers, loaded |-> Some(db[id]), order |-> 0]]
    /\ UNCHANGED <<db, last, matchVars, ing>>

\* update_answers, lines 143-145: the merge into the loaded answers and the
\* commit
CommitUpdateAnswers(s) ==
    /\ sess[s].pc = "loaded"
    /\ sess[s].op = "update_answers"
    /\ LET id == sess[s].id
           loaded == sess[s].loaded[1]
           cur == UpdateAnswersInSession(loaded, sess[s].arg)
       IN  db' = [db EXCEPT ![id] = Flush(db[id], loaded, cur)]
    /\ sess' = [sess EXCEPT ![s].pc = "done",
                            ![s].order = Cardinality(Committed) + 1]
    /\ UNCHANGED <<last, matchVars, ing>>

\* generate_draft, lines 154-169: the query, the file read and the rendering
BeginGenerate(s, id) ==
    /\ sess[s].pc = "idle"
    /\ id \in DOMAIN db
    /\ sess' = [sess EXCEPT ![s] =
                  [pc |-> "loaded", op |-> "generate", id |-> id,
                   arg |-> <<>>, loaded |-> Some(db[id]), order |-> 0]]
    /\ UNCHANGED <<db, last, matchVars, ing>>

\* generate_draft, lines 175-178: the DOCX is written and the draft, the
\* status and the path are committed
CommitGenerate(s) ==
    /\ sess[s].pc = "loaded"
    /\ sess[s].op = "generate"
    /\ LET id == sess[s].id
           loaded == sess[s].loaded[1]
           cur == [GenerateInSession(loaded) EXCEPT
                      !.draft_docx_path = Some(DocxPath(id))]
       IN  db' = [db EXCEPT ![id] = Flush(db[id], loaded, cur)]
    /\ sess' = [sess EXCEPT ![s].pc = "done",
                            ![s].order = Cardinality(Committed) + 1]
    /\ UNCHANGED <<last, matchVars, ing>>

\* one instance, as create_draft_instance stored it, and no request in flight
InitConc ==
    /\ \E prefilled \in Partials :
          db = <<NewInstance("t1", prefilled)>>
    /\ last = NoRequest
    /\ sess = [s \in Slots |-> Idle]
    /\ library = <<>>
    /\ settings = DefaultSettings
    /\ m = NoMatch
    /\ ing = NoIngestion

NextConc ==
    \/ \E s \in Slots, id \in RequestIds, answers \in Partials :
          BeginUpdateAnswers(s, id, answers)
    \/ \E s \in Slots : CommitUpdateAnswers(s)
    \/ \E s \in Slots, id \in RequestIds : BeginGenerate(s, id)
    \/ \E s \in Slots : CommitGenerate(s)

SpecConc == InitConc /\ [][NextConc]_vars

----------------------------------------------------------------------------
(* DraftService.match_template (SpecMatch).  A template is its position in  *)
(* the library; library[i] is its embedding column: NULL or a vector.       *)

\* the query embeddings the oracle may return
QueryVectors == { <<1, 0>>, <<0, 1>> }

\* the libraries of SpecMatch: up to MaxTemplates templates, each without an
\* embedding or with the one vector
Libraries ==
    UNION { [1..n -> { None, Some(<<1, 0>>) }] : n \in 0..MaxTemplates }

\* a field of the judgment oracle's JSON answer: absent, null or a number
Missing == <<"missing">>
Null == <<"null">>
Num(n) == <<"num", n>>

IndexChoices == { -1, 0, 1, 4, 5 }
ConfidenceChoices == { 0, 6, 7, 9 }

\* gemini_service.match_templates (gemini_service_old.py, 127-141): the
\* parsed answer, or the default when the call or the parsing fails
DefaultSelection == [best_match_index |-> Num(0), confidence |-> Num(5)]

LLMAnswers ==
    [best_match_index : {Missing, Null} \cup { Num(i) : i \in IndexChoices },
     confidence : {Missing, Null} \cup { Num(c) : c \in ConfidenceChoices }]

\* what the oracle call does: it answers, or it fails
OracleOutcomes == { Some(a) : a \in LLMAnswers } \cup { None }

match_templates(outcome) ==
    IF outcome = None THEN DefaultSelection ELSE outcome[1]

\* llm_result.get(field) or default: absent, null and 0 give the default
OrZero(field, default) ==
    IF field[1] = "num" /\ field[2] # 0 THEN field[2] ELSE 0

OrDefault(field, default) ==
    IF field[1] = "num" /\ field[2] # 0 THEN field[2] ELSE default

\* cosine_similarity([q], [t])[0][0] as the exact fraction <<n, d>> with
\* n/d = sign(q.t) * cos(q, t)^2, which orders as the cosine does; a zero
\* vector gives 0
Dot(u, v) == u[1] * v[1] + u[2] * v[2]

Similarity(q, t) ==
    IF Dot(q, q) = 0 \/ Dot(t, t) = 0 THEN <<0, 1>>
    ELSE <<(IF Dot(q, t) < 0 THEN -1 ELSE 1) * Dot(q, t) * Dot(q, t),
           Dot(q, q) * Dot(t, t)>>

\* a < b for fractions with positive denominators
Less(a, b) == a[1] * b[2] < b[1] * a[2]

\* lines 46-57: a template without an embedding is skipped
RECURSIVE SimilaritiesScoringMissing(_, _, _)
SimilaritiesScoringMissing(templates, i, q) ==
    IF i > Len(templates) THEN <<>>
    ELSE <<[template |-> i,
            similarity |-> IF templates[i] # None
                           THEN Similarity(q, templates[i][1]) ELSE <<0, 1>>]>>
           \o SimilaritiesScoringMissing(templates, i + 1, q)

RECURSIVE Similarities(_, _, _)
Similarities(templates, i, q) ==
    IF i > Len(templates) THEN <<>>
    ELSE IF templates[i] # None
         THEN <<[template |-> i, similarity |-> Similarity(q, templates[i][1])]>>
                \o Similarities(templates, i + 1, q)
         ELSE Similarities(templates, i + 1, q)

\* x placed behind every element that is not smaller: equal elements keep
\* their order
RECURSIVE InsertDesc(_, _)
InsertDesc(sorted, x) ==
    IF sorted = <<>> THEN <<x>>
    ELSE IF Less(Head(sorted).similarity, x.similarity)
         THEN <<x>> \o sorted
         ELSE <<Head(sorted)>> \o InsertDesc(Tail(sorted), x)

\* similarities.sort(key=..., reverse=True), line 59: stable
RECURSIVE SortDesc(_, _)
SortDesc(sorted, rest) ==
    IF rest = <<>> THEN sorted
    ELSE SortDesc(InsertDesc(sorted, Head(rest)), Tail(rest))

Min(a, b) == IF a < b THEN a ELSE b

\* similarities[:5], line 60
TopCandidates(templates, q) ==
    LET sorted == SortDesc(<<>>, Similarities(templates, 1, q))
    IN  SubSeq(sorted, 1, Min(5, Len(sorted)))

\* top_candidates[1:4], line 87
Alternatives(top) == SubSeq(top, 2, Min(4, Len(top)))

\* top_candidates[best_index] is in range (a negative index counts from the
\* end)
InRange(top, best_index) ==
    /\ best_index < Len(top)
    /\ best_index >= 0 - Len(top)

Subscript(top, best_index) ==
    IF best_index >= 0 THEN top[best_index + 1] ELSE top[Len(top) + best_index + 1]

\* the escalation test of lines 91-92
EscalatesAtThreshold(include_web_search, confidence) ==
    /\ include_web_search
    /\ confidence <= settings.MIN_CONFIDENCE_THRESHOLD
    /\ settings.EXA_API_KEY

Escalates(include_web_search, confidence) ==
    /\ include_web_search
    /\ confidence < settings.MIN_CONFIDENCE_THRESHOLD
    /\ settings.EXA_API_KEY

\* if not templates (line 37): the library holds no template at all
NoTemplatesNever(templates) == FALSE

NoTemplates(templates) == templates = <<>>

\* match_template(query, db, include_web_search).  query: the embedding of
\* the query, embedOk: generate_embedding returns, outcome: what the judgment
\* oracle does, found: what the web search returns ([] when it fails)
MatchTemplate(query, embedOk, outcome, include_web_search, found) ==
    /\ m.outcome = "none"
    /\ LET call == [NoMatch EXCEPT !.query = query, !.llm = outcome,
                       !.include_web_search = include_web_search]
       IN
       IF ~embedOk
       THEN m' = [call EXCEPT !.outcome = "error",
                              !.calls = <<"generate_embedding">>]
       ELSE IF NoTemplates(library)
       THEN IF include_web_search /\ settings.EXA_API_KEY
            THEN m' = [call EXCEPT
                         !.outcome = "ok",
                         !.web_results = found,
                         !.message = IF found # <<>> THEN "no_local_web_results"
                                     ELSE "no_templates",
                         !.calls = <<"generate_embedding", "search">>]
            ELSE m' = [call EXCEPT !.outcome = "ok",
                                   !.message = "no_templates",
                                   !.calls = <<"generate_embedding">>]
       ELSE
       LET top == TopCandidates(library, query)
           llm_result == match_templates(outcome)
           best_index == OrDefault(llm_result.best_match_index, 0)
           confidence == OrDefault(llm_result.confidence, 5)
           searched == Escalates(include_web_search, confidence)
       IN  IF top # <<>> /\ ~InRange(top, best_index)
           THEN m' = [call EXCEPT
                        !.outcome = "error",
                        !.top = top,
                        !.calls = <<"generate_embedding", "match_templates">>]
           ELSE m' = [call EXCEPT
                        !.outcome = "ok",
                        !.top = top,
                        !.best_match =
                            IF top # <<>>
                            THEN Some(Subscript(top, best_index).template)
                            ELSE None,
                        !.confidence = confidence,
                        !.alternatives = Alternatives(top),
                        !.web_results = IF searched THEN found ELSE <<>>,
                        !.message = IF searched /\ found # <<>>
                                    THEN "low_confidence_web_results" ELSE "",
                        !.calls =
                            IF searched
                            THEN <<"generate_embedding", "match_templates", "search">>
                            ELSE <<"generate_embedding", "match_templates">>]
    /\ UNCHANGED <<db, last, sess, library, settings, ing>>

WebResults == { <<>>, <<"url">> }

InitMatch ==
    /\ db = <<>>
    /\ last = NoRequest
    /\ sess = <<>>
    /\ library \in Libraries
    /\ settings \in SettingsChoices
    /\ m = NoMatch
    /\ ing = NoIngestion

NextMatch ==
    \E query \in QueryVectors, embedOk \in BOOLEAN, outcome \in OracleOutcomes,
       include_web_search \in BOOLEAN, found \in WebResults :
        MatchTemplate(query, embedOk, outcome, include_web_search, found)

SpecMatch == InitMatch /\ [][NextMatch]_vars

----------------------------------------------------------------------------
(* Ranking (SpecRank): match_template over libraries whose templates have   *)
(* different embeddings, so that the similarities differ and tie            *)

\* the embeddings a stored template may have
RankVectors == { <<1, 0>>, <<1, 1>>, <<-1, 0>> }

RankLibraries ==
    UNION { [1..n -> {None} \cup { Some(v) : v \in RankVectors }] :
              n \in 1..MaxRankTemplates }

\* the judgment oracle fails, or names the second candidate
RankOutcomes ==
    { None, Some([best_match_index |-> Num(1), confidence |-> Num(9)]) }

InitRank ==
    /\ db = <<>>
    /\ last = NoRequest
    /\ sess = <<>>
    /\ library \in RankLibraries
    /\ settings = DefaultSettings
    /\ m = NoMatch
    /\ ing = NoIngestion

NextRank ==
    \E query \in QueryVectors, outcome \in RankOutcomes :
        MatchTemplate(query, TRUE, outcome, FALSE, <<>>)

SpecRank == InitRank /\ [][NextRank]_vars

----------------------------------------------------------------------------
(* DocumentService.chunk_text and TemplateService.process_uploaded_document *)
(* (SpecIngest).  An ingestion is one request; it is split where it calls   *)
(* the extraction oracle, once per loop iteration.                           *)

\* the documents ingested: texts of every length up to MaxTextLen
Texts ==
    { [j \in 1..n |-> IF j % 2 = 1 THEN "x" ELSE "y"] : n \in 0..MaxTextLen }

\* settings.CHUNK_SIZE and settings.CHUNK_OVERLAP as a deployment may set
\* them: every window length L and overlap O with L > O >= 0
ChunkSettings ==
    { c \in (1..MaxChunkSize) \X (0..MaxChunkSize) : c[1] > c[2] }

Max(a, b) == IF a > b THEN a ELSE b

\* an index of a slice brought into 0..n (a negative index counts from the
\* end)
Clamp(idx, n) == IF idx < 0 THEN Max(n + idx, 0) ELSE Min(idx, n)

\* text[lo:hi]
Slice(text, lo, hi) ==
    LET a == Clamp(lo, Len(text))
        b == Clamp(hi, Len(text))
    IN  IF a < b THEN SubSeq(text, a + 1, b) ELSE <<>>

\* the most chunks the model lets the loop of chunk_text append: more than
\* any text has windows when O < L, so that it only stops the loop that
\* never ends
MaxChunks == MaxTextLen + 1

\* start = end - overlap (document_service.py line 43)
NextStartSkipping(end, overlap) == end + overlap

NextStartBehind(end, overlap) == end - overlap - 1

NextStart(end, overlap) == end - overlap

\* one iteration of the while loop of chunk_text (lines 39-43); starts
\* records the value of start each chunk was cut at
ChunkStep ==
    /\ ing.pc = "chunking"
    /\ ing.start < Len(ing.text)
    /\ Len(ing.chunks) < MaxChunks
    /\ LET end == ing.start + ing.chunk_size
           chunk == Slice(ing.text, ing.start, end)
       IN  ing' = [ing EXCEPT !.chunks = Append(@, chunk),
                              !.starts = Append(@, ing.start),
                              !.start = NextStart(end, ing.overlap)]
    /\ UNCHANGED <<db, last, sess, matchVars>>

\* the loop of chunk_text ends: return chunks if chunks else [text] (line 45)
ChunkReturn ==
    /\ ing.pc = "chunking"
    /\ ~(ing.start < Len(ing.text))
    /\ ing' = [ing EXCEPT
                 !.pc = "extracting",
                 !.chunks = IF ing.chunks # <<>> THEN ing.chunks
                            ELSE <<ing.text>>,
                 !.starts = IF ing.chunks # <<>> THEN ing.starts ELSE <<0>>]
    /\ UNCHANGED <<db, last, sess, matchVars>>

----------------------------------------------------------------------------
(* TemplateService.to_snake_case on sequences of characters *)

LowerOrDigit == {"a", "b", "1"}
Upper == {"A", "B"}

ToLower(c) == CASE c = "A" -> "a" [] c = "B" -> "b" [] OTHER -> c

\* text.replace(' ', '_').replace('-', '_'), line 20
Underscored(text) ==
    [j \in 1..Len(text) |-> IF text[j] \in {" ", "-"} THEN "_" ELSE text[j]]

\* re.sub('([a-z0-9])([A-Z])', r'\1_\2', text), line 22: matches are taken
\* left to right and do not overlap
RECURSIVE SplitCapitals(_, _)
SplitCapitals(text, j) ==
    IF j > Len(text) THEN <<>>
    ELSE IF j < Len(text) /\ text[j] \in LowerOrDigit /\ text[j + 1] \in Upper
         THEN <<text[j], "_", text[j + 1]>> \o SplitCapitals(text, j + 2)
         ELSE <<text[j]>> \o SplitCapitals(text, j + 1)

\* re.sub(r'[^a-z0-9_]', '', text.lower()), line 24
RECURSIVE LowerAlnum(_)
LowerAlnum(text) ==
    IF text = <<>> THEN <<>>
    ELSE LET c == ToLower(Head(text))
         IN  IF c \in LowerOrDigit \cup {"_"}
             THEN <<c>> \o LowerAlnum(Tail(text))
             ELSE LowerAlnum(Tail(text))

\* re.sub(r'_+', '_', text), line 26
RECURSIVE Collapse(_)
Collapse(text) ==
    IF Len(text) < 2 THEN text
    ELSE IF text[1] = "_" /\ text[2] = "_" THEN Collapse(Tail(text))
         ELSE <<text[1]>> \o Collapse(Tail(text))

\* text.strip('_'), line 28
RECURSIVE Strip(_)
Strip(text) ==
    IF text = <<>> THEN text
    ELSE IF text[1] = "_" THEN Strip(Tail(text))
    ELSE IF text[Len(text)] = "_" THEN Strip(SubSeq(text, 1, Len(text) - 1))
    ELSE text

to_snake_case(text) ==
    Strip(Collapse(LowerAlnum(SplitCapitals(Underscored(text), 1))))

----------------------------------------------------------------------------
(* The extraction oracle (GeminiService.extract_variables) and the loop of  *)
(* process_uploaded_document                                                 *)

\* dict.get(field, default) on a field that is absent (None) or present
Get(field, default) == IF field = None THEN default ELSE field[1]

\* a variable the oracle proposes: its raw key (absent or text) and a label
V(key, label) == [key |-> key, label |-> label]

\* the JSON objects the oracle may answer with
Results ==
    { [variables |-> Some(<< V(Some(<<"a", " ", "B">>), "1") >>),
       doc_type |-> Some("nda"), jurisdiction |-> Some("us"),
       tags |-> Some(<<"t1">>)],
      [variables |-> Some(<< V(Some(<<"a", "B">>), "2"),
                             V(Some(<<"b">>), "2"),
                             V(Some(<<"a", "_", "b">>), "2b") >>),
       doc_type |-> Some("lease"), jurisdiction |-> None,
       tags |-> Some(<<"t2">>)],
      [variables |-> Some(<< V(Some(<<"B", "!">>), "3"),
                             V(Some(<<"_", "a", "-", "-", "b">>), "3"),
                             V(None, "3") >>),
       doc_type |-> None, jurisdiction |-> Some("uk"), tags |-> None] }

\* what extract_variables returns when the answer does not parse (line 85)
Placeholder ==
    [variables |-> Some(<<>>), doc_type |-> Some("unknown"),
     jurisdiction |-> Some(""), tags |-> Some(<<>>)]

\* what a call of the oracle does: it answers with JSON, with text that
\* does not parse, or the call fails (timeout, quota, network)
ExtractOutcomes ==
    { [kind |-> "json", result |-> r] : r \in Results }
      \cup { [kind |-> "unparseable", result |-> Placeholder],
             [kind |-> "api_error", result |-> Placeholder] }

\* extract_variables raises (lines 86-88)
Raises(outcome) == outcome.kind = "api_error"

\* extract_variables returns (lines 80-85)
extract_variables(outcome) ==
    IF outcome.kind = "json" THEN outcome.result ELSE Placeholder

\* lines 63-68: the key is normalised and the variable is appended unless a
\* variable with that key is already there
AddVariableOverwriting(all_variables, var) ==
    LET v == [var EXCEPT !.key = to_snake_case(Get(var.key, <<>>))]
    IN  IF \E j \in 1..Len(all_variables) : all_variables[j].key = v.key
        THEN [j \in 1..Len(all_variables) |->
                IF all_variables[j].key = v.key THEN v ELSE all_variables[j]]
        ELSE Append(all_variables, v)

AddVariable(all_variables, var) ==
    LET v == [var EXCEPT !.key = to_snake_case(Get(var.key, <<>>))]
    IN  IF \E j \in 1..Len(all_variables) : all_variables[j].key = v.key
        THEN all_variables
        ELSE Append(all_variables, v)

\* for var in result.get("variables", []) (line 61)
RECURSIVE AddVariables(_, _)
AddVariables(all_variables, variables) ==
    IF variables = <<>> THEN all_variables
    ELSE AddVariables(AddVariable(all_variables, Head(variables)),
                      Tail(variables))

\* existing_vars = all_variables if i > 0 else None (line 57)
ExistingVarsNever(i, all_variables) == None

ExistingVars(i, all_variables) ==
    IF i > 0 THEN Some(all_variables) ELSE None

\* if i == 0 (line 71)
IsFirstChunkAlways(i) == TRUE

IsFirstChunk(i) == i = 0

\* one iteration of the loop of process_uploaded_document (lines 53-74);
\* calls records each call of the oracle: the chunk and the variables it was
\* given and what it did
ExtractStep(outcome) ==
    /\ ing.pc = "extracting"
    /\ ing.i < Len(ing.chunks)
    /\ LET chunk == ing.chunks[ing.i + 1]
           existing_vars == ExistingVars(ing.i, ing.all_variables)
           call == [chunk |-> chunk, existing_variables |-> existing_vars,
                    outcome |-> outcome]
           result == extract_variables(outcome)
       IN  IF Raises(outcome)
           THEN ing' = [ing EXCEPT !.pc = "failed",
                                   !.calls = Append(@, call)]
           ELSE ing' = [ing EXCEPT
                          !.calls = Append(@, call),
                          !.all_variables =
                              AddVariables(@, Get(result.variables, <<>>)),
                          !.doc_type =
                              IF IsFirstChunk(ing.i)
                              THEN Get(result.doc_type, "unknown") ELSE @,
                          !.jurisdiction =
                              IF IsFirstChunk(ing.i)
                              THEN Get(result.jurisdiction, "") ELSE @,
                          !.tags =
                              IF IsFirstChunk(ing.i)
                              THEN Get(result.tags, <<>>) ELSE @,
                          !.i = @ + 1]
    /\ UNCHANGED <<db, last, sess, matchVars>>

\* lines 76-142: after the loop the document is embedded and the template
\* and its variables are stored; embedOk: generate_embedding returns
StoreTemplate(embedOk) ==
    /\ ing.pc = "extracting"
    /\ ing.i = Len(ing.chunks)
    /\ IF embedOk
       THEN ing' = [ing EXCEPT
                      !.pc = "done",
                      !.template =
                          Some([doc_type |-> ing.doc_type,
                                jurisdiction |-> ing.jurisdiction,
                                tags |-> ing.tags,
                                variables |-> ing.all_variables])]
       ELSE ing' = [ing EXCEPT !.pc = "failed"]
    /\ UNCHANGED <<db, last, sess, matchVars>>

\* process_uploaded_document has extracted the text of the document
\* (line 42) and calls chunk_text
InitIngest ==
    /\ db = <<>>
    /\ last = NoRequest
    /\ sess = <<>>
    /\ library = <<>>
    /\ settings = DefaultSettings
    /\ m = NoMatch
    /\ \E text \in Texts, c \in ChunkSettings :
          ing = [NoIngestion EXCEPT !.pc = "chunking", !.text = text,
                                    !.chunk_size = c[1], !.overlap = c[2]]

NextIngest ==
    \/ ChunkStep
    \/ ChunkReturn
    \/ \E outcome \in ExtractOutcomes : ExtractStep(outcome)
    \/ \E embedOk \in BOOLEAN : StoreTemplate(embedOk)

SpecIngest == InitIngest /\ [][NextIngest]_vars

\* chunk_text under every setting of CHUNK_SIZE and CHUNK_OVERLAP, those
\* with O >= L included (SpecChunk); the loop of chunk_text is sequential
\* code: whichever of its two steps is possible is taken
AllChunkSettings == (1..MaxChunkSize) \X (0..MaxChunkSize)

InitChunk ==
    /\ db = <<>>
    /\ last = NoRequest
    /\ sess = <<>>
    /\ library = <<>>
    /\ settings = DefaultSettings
    /\ m = NoMatch
    /\ \E text \in Texts, c \in AllChunkSettings :
          ing = [NoIngestion EXCEPT !.pc = "chunking", !.text = text,
                                    !.chunk_size = c[1], !.overlap = c[2]]

SpecChunk ==
    /\ InitChunk
    /\ [][NextIngest]_vars
    /\ WF_vars(ChunkStep)
    /\ WF_vars(ChunkReturn)

TypeOK ==
    /\ DOMAIN db \subseteq InstanceIds
    /\ \A i \in DOMAIN db :
        /\ db[i].template \in TemplateIds
        /\ db[i].status \in {"pending", "in_progress", "completed"}

----------------------------------------------------------------------------
(* Properties of the draft lifecycle, one request at a time (Spec) *)

Handled(op) == last.op = op /\ last.outcome = "ok"

\* C1: create leaves the new instance pending; update_answers on a stored
\* instance leaves it in_progress whatever its status was; a generate that
\* returns leaves it completed.
StatusAfterRequest ==
    /\ Handled("create") => db[last.id].status = "pending"
    /\ Handled("update_answers") => db[last.id].status = "in_progress"
    /\ Handled("generate") => db[last.id].status = "completed"

\* C1 witness: update_answers has acted on a completed instance
UpdatedACompletedInstance ==
    /\ Handled("update_answers")
    /\ last.pre = "completed"
    /\ db[last.id].status = "in_progress"

StatusRank(st) ==
    CASE st = "pending" -> 0 [] st = "in_progress" -> 1 [] st = "completed" -> 2

\* C2: the status of an instance only moves forward along
\* pending -> in_progress -> completed; no request takes it back.
StatusOnlyMovesForward ==
    [][\A i \in DOMAIN db :
          StatusRank(db'[i].status) >= StatusRank(db[i].status)]_vars

\* C3: update_answers is a shallow merge: afterwards every key of the
\* request has the request's value, every other key the value it had before,
\* and no key has disappeared or appeared from nowhere.
MergeIsShallow ==
    [][(last'.op = "update_answers" /\ last'.outcome = "ok") =>
        LET before == get_answers(db[last'.id])
            after == get_answers(db'[last'.id])
            partial == last'.arg
        IN  /\ DictKeys(after) = DictKeys(before) \cup DictKeys(partial)
            /\ \A k \in DictKeys(partial) :
                  DictGet(after, k) = DictGet(partial, k)
            /\ \A k \in DictKeys(before) \ DictKeys(partial) :
                  DictGet(after, k) = DictGet(before, k)]_vars

\* C3 witness: {b: 7} was merged into answers that held only a, and the
\* result holds a with its old value and b
MergedANewKey ==
    /\ Handled("update_answers")
    /\ last.arg = << <<"b", <<"n", 7>> >> >>
    /\ get_answers(db[last.id]) =
          << <<"a", <<"s", Token("b")>> >>, <<"b", <<"n", 7>> >> >>

\* the text with every {{key}} token of an answered key replaced by that
\* key's value at once, and everything else kept
RECURSIVE SubstituteFrom(_, _, _)
SubstituteFrom(text, i, answers) ==
    IF i > Len(text) THEN <<>>
    ELSE LET hit == { k \in DictKeys(answers) : IsPrefixAt(text, i, Token(k)) }
         IN  IF hit # {}
             THEN LET k == CHOOSE x \in hit : TRUE
                  IN  Str(DictGet(answers, k))
                        \o SubstituteFrom(text, i + Len(Token(k)), answers)
             ELSE <<text[i]>> \o SubstituteFrom(text, i + 1, answers)

Substitute(text, answers) == SubstituteFrom(text, 1, answers)

\* C4: generate replaces every {{key}} token of the template text whose key
\* is answered by that key's value and leaves every other token as it is.
DraftIsTokenwiseSubstitution ==
    Handled("generate") =>
        db[last.id].draft_md =
            Some(Substitute(FileText(db[last.id].template),
                            get_answers(db[last.id])))

\* C6: a generate that fails (template file missing, DOCX rendering fails)
\* leaves every stored instance exactly as it was.
FailedGenerateChangesNothing ==
    [][(last'.op = "generate"
          /\ last'.outcome \in {"file_missing", "render_failed"}) =>
        db' = db]_vars

\* C6 witness: the rendering failed on an instance with answers and the
\* instance is neither completed nor holds a draft
RenderFailedOnPendingInstance ==
    /\ last.op = "generate"
    /\ last.outcome = "render_failed"
    /\ last.pre = "pending"
    /\ db[last.id].status = "pending"
    /\ db[last.id].draft_md = None
    /\ get_answers(db[last.id]) # <<>>

\* C7: a request naming an instance (create: a template) that is not stored
\* ends NotFound, calls no oracle and changes nothing stored; get on a stored
\* id returns the instance and changes nothing.
NotFoundChangesNothing ==
    [][/\ (last'.op \in {"get", "update_answers", "generate"}
             /\ last'.id \notin DOMAIN db) => last'.outcome = "not_found"
       /\ (last'.op = "create" /\ last'.tid \notin TemplateIds) =>
             last'.outcome = "not_found"
       /\ last'.outcome = "not_found" => db' = db /\ last'.calls = <<>>
       /\ (last'.op = "get" /\ last'.outcome = "ok") =>
             db' = db /\ last'.ret = Some(db[last'.id])]_vars

\* C7 witness: a request for an id that is not stored was refused while
\* another instance is stored
RefusedUnknownInstance ==
    /\ last.op \in {"update_answers", "generate"}
    /\ last.outcome = "not_found"
    /\ last.id \notin DOMAIN db
    /\ DOMAIN db # {}

\* C18: generate is accepted on a completed instance: it renders the
\* template file with the stored answers again and stores that text; on an
\* instance that is completed (its answers have not changed since the
\* generate that completed it) it leaves the stored draft and the status
\* completed as they were.
RegenerateIsIdempotent ==
    [][(last'.op = "generate" /\ last'.id \in DOMAIN db) =>
          /\ last'.outcome \in {"ok", "file_missing", "render_failed"}
          /\ last'.outcome = "ok" =>
                /\ db'[last'.id].status = "completed"
                /\ db'[last'.id].draft_md
                     = Some(RenderLoop(FileText(db[last'.id].template),
                                       get_answers(db[last'.id])))
                /\ db[last'.id].status = "completed" =>
                      db'[last'.id] = db[last'.id]]_vars

\* C18 witness: generate has acted again on a completed instance whose
\* answers hold a value with a token in it
RegeneratedACompletedInstance ==
    /\ Handled("generate")
    /\ last.pre = "completed"
    /\ db[last.id].status = "completed"
    /\ \E k \in Keys :
          /\ DictHas(get_answers(db[last.id]), k)
          /\ DictGet(get_answers(db[last.id]), k) = <<"s", Token("b")>>

----------------------------------------------------------------------------
(* Properties of overlapping requests (SpecConc) *)

\* the committed update_answers requests on instance i that carried key k
Writers(i, k) ==
    { s \in Committed :
        /\ sess[s].op = "update_answers"
        /\ sess[s].id = i
        /\ DictHas(sess[s].arg, k) }

LastWriter(i, k) ==
    CHOOSE s \in Writers(i, k) :
        \A t \in Writers(i, k) : sess[t].order <= sess[s].order

\* C5: overlapping update_answers requests on one instance are
\* last-write-wins per key: every key a committed request carried holds the
\* value of the last committed request that carried it, so a key only one
\* request wrote is not lost to the other's update of a different key.
KeyLevelLastWriteWins ==
    \A i \in DOMAIN db, k \in Keys :
        Writers(i, k) # {} =>
            /\ DictHas(get_answers(db[i]), k)
            /\ DictGet(get_answers(db[i]), k)
                 = DictGet(sess[LastWriter(i, k)].arg, k)

----------------------------------------------------------------------------
(* Properties of match_template (SpecMatch) *)

Searched == \E j \in 1..Len(m.calls) : m.calls[j] = "search"

\* C8 as stated: the web search is invoked exactly when the result's
\* confidence is strictly below the threshold, escalation was requested and
\* the search key is configured; otherwise web_results is empty.
SearchIffLowConfidence ==
    m.outcome # "none" =>
        /\ Searched <=>
              /\ m.outcome = "ok"
              /\ m.confidence < settings.MIN_CONFIDENCE_THRESHOLD
              /\ m.include_web_search
              /\ settings.EXA_API_KEY
        /\ ~Searched => m.web_results = <<>>

\* C8 amended: the web search is invoked exactly when escalation was
\* requested, the search key is configured, and either the library is empty
\* or the result's confidence is strictly below the threshold; otherwise
\* no search call is made and web_results is empty.
SearchIffEscalated ==
    m.outcome # "none" =>
        /\ Searched <=>
              /\ m.outcome = "ok"
              /\ m.include_web_search
              /\ settings.EXA_API_KEY
              /\ \/ library = <<>>
                 \/ m.confidence < settings.MIN_CONFIDENCE_THRESHOLD
        /\ ~Searched => m.web_results = <<>>

\* C8 witness: a match on a stocked library escalated on a confidence just
\* below the default threshold
EscalatedOnLowConfidence ==
    /\ m.outcome = "ok"
    /\ library # <<>>
    /\ settings.MIN_CONFIDENCE_THRESHOLD = MIN_CONFIDENCE_THRESHOLD
    /\ m.confidence = 6
    /\ Searched
    /\ m.web_results # <<>>

\* the candidates other than the best match, in ranking order
RECURSIVE Without(_, _)
Without(top, t) ==
    IF top = <<>> THEN <<>>
    ELSE IF Head(top).template = t THEN Without(Tail(top), t)
         ELSE <<Head(top)>> \o Without(Tail(top), t)

\* C9: the best match never appears among the alternatives, and the
\* alternatives are the (up to three) highest-ranked candidates other than
\* the best match.
AlternativesExcludeBestMatch ==
    (m.outcome = "ok" /\ m.best_match # None) =>
        LET others == Without(m.top, m.best_match[1])
        IN  /\ \A j \in 1..Len(m.alternatives) :
                  m.alternatives[j].template # m.best_match[1]
            /\ m.alternatives = SubSeq(others, 1, Min(3, Len(others)))

\* C10: with candidates at hand, an answer without an index or with a null
\* index makes candidate 0 the best match; an answer without a confidence
\* reports 0.5; an oracle failure reports 0.5 and candidate 0.
OracleDefaultsApply ==
    (m.outcome # "none" /\ library # <<>> /\ Len(m.calls) >= 2) =>
        /\ (m.llm # None /\ m.top # <<>>
              /\ m.llm[1].best_match_index \in {Missing, Null}) =>
                 /\ m.outcome = "ok"
                 /\ m.best_match = Some(m.top[1].template)
        /\ (m.llm # None /\ m.llm[1].confidence = Missing
              /\ m.outcome = "ok") =>
                 m.confidence = 5
        /\ m.llm = None =>
                 /\ m.outcome = "ok"
                 /\ m.confidence = 5
                 /\ m.top # <<>> => m.best_match = Some(m.top[1].template)

\* C10 witness: the oracle named no index and no confidence, two candidates
\* were ranked, and the first is the best match at confidence 0.5
DefaultedIndexAndConfidence ==
    /\ m.outcome = "ok"
    /\ m.llm # None
    /\ m.llm[1].best_match_index = Null
    /\ m.llm[1].confidence = Missing
    /\ Len(m.top) >= 2
    /\ m.best_match = Some(m.top[1].template)
    /\ m.confidence = 5

----------------------------------------------------------------------------
(* Properties of the ranking (SpecRank) *)

\* the templates of the library that have a stored embedding
Embedded == { t \in 1..Len(library) : library[t] # None }

Ranked == { m.top[j].template : j \in 1..Len(m.top) }

\* C11: the candidate list handed to the arbiter is sorted by descending
\* cosine similarity, holds only templates with a stored embedding (each
\* once, with its similarity to the query), has exactly
\* min(5, templates with an embedding) entries, and no entry has a lower
\* similarity than a template with an embedding that was left out.
CandidatesAreTopFive ==
    (m.outcome # "none" /\ library # <<>>) =>
        /\ \A j, k \in 1..Len(m.top) :
              j < k => ~Less(m.top[j].similarity, m.top[k].similarity)
        /\ Ranked \subseteq Embedded
        /\ Cardinality(Ranked) = Len(m.top)
        /\ \A j \in 1..Len(m.top) :
              m.top[j].similarity
                = Similarity(m.query, library[m.top[j].template][1])
        /\ Len(m.top) = Min(5, Cardinality(Embedded))
        /\ \A t \in Embedded \ Ranked, j \in 1..Len(m.top) :
              ~Less(m.top[j].similarity, Similarity(m.query, library[t][1]))

\* C11 witness: six templates with an embedding and one without were ranked;
\* five candidates of different similarities were kept, the lowest above
\* the similarity of the template left out
RankedSixKeptFive ==
    /\ m.outcome = "ok"
    /\ Cardinality(Embedded) = 6
    /\ \E t \in 1..Len(library) : library[t] = None
    /\ Len(m.top) = 5
    /\ Less(m.top[5].similarity, m.top[1].similarity)
    /\ \E t \in Embedded \ Ranked :
          Less(Similarity(m.query, library[t][1]), m.top[5].similarity)

----------------------------------------------------------------------------
(* More properties of match_template (SpecMatch) *)

Called(oracle) == \E j \in 1..Len(m.calls) : m.calls[j] = oracle

\* C12: with an empty library the judgment oracle is never invoked; the web
\* search is invoked exactly when it is configured and escalation was
\* requested; the result has a null best_match, no alternatives, the web
\* results and nothing else, and a message saying that there are no local
\* templates.
EmptyLibraryGoesToSearch ==
    (m.outcome = "ok" /\ library = <<>>) =>
        /\ ~Called("match_templates")
        /\ m.top = <<>>
        /\ Called("search") <=> (m.include_web_search /\ settings.EXA_API_KEY)
        /\ m.best_match = None
        /\ m.alternatives = <<>>
        /\ ~Called("search") => m.web_results = <<>>
        /\ m.message \in {"no_templates", "no_local_web_results"}
        /\ m.message = "no_local_web_results" <=> m.web_results # <<>>

\* C12 witness: a match on an empty library went to the web search and
\* returned its results
EmptyLibrarySearched ==
    /\ m.outcome = "ok"
    /\ library = <<>>
    /\ m.calls = <<"generate_embedding", "search">>
    /\ m.web_results # <<>>
    /\ m.message = "no_local_web_results"

\* the embedding call failed: nothing was called after it
EmbeddingUnavailable ==
    m.outcome = "error" /\ m.calls = <<"generate_embedding">>

\* C17: with templates in the library a match never ends in an error
\* because a collaborator is unavailable: not when the embedding call
\* fails, not when the judgment call fails, not when the search finds or
\* reaches nothing; it returns a result with that feature left out.
MatchSurvivesCollaborators ==
    (m.outcome # "none" /\ library # <<>>) =>
        /\ ~EmbeddingUnavailable
        /\ (Called("match_templates") /\ m.llm = None) => m.outcome = "ok"
        /\ (Called("search") /\ m.web_results = <<>>) => m.outcome = "ok"

----------------------------------------------------------------------------
(* Properties of chunk_text (SpecIngest) *)

Chunked == ing.pc \in {"extracting", "done", "failed"}

\* the character positions (from 1) window j holds
Window(j) == (ing.starts[j] + 1)..(ing.starts[j] + Len(ing.chunks[j]))

\* C13: for L > O >= 0 the windows come left to right (strictly increasing
\* start offsets), each is the substring of at most L characters of the text
\* at its start offset, and together they hold every character position.
WindowsCoverText ==
    Chunked =>
        /\ Len(ing.chunks) = Len(ing.starts)
        /\ \A j, k \in 1..Len(ing.starts) :
              j < k => ing.starts[j] < ing.starts[k]
        /\ \A j \in 1..Len(ing.chunks) :
              /\ Len(ing.chunks[j]) <= ing.chunk_size
              /\ Window(j) \subseteq 1..Len(ing.text)
              /\ \A p \in Window(j) :
                    ing.chunks[j][p - ing.starts[j]] = ing.text[p]
        /\ \A p \in 1..Len(ing.text) :
              \E j \in 1..Len(ing.chunks) : p \in Window(j)

\* C13 witness: a text of 5 characters was cut with L = 3, O = 1 into the
\* windows at 0, 2 and 4
CutIntoOverlappingWindows ==
    /\ Chunked
    /\ Len(ing.text) = 5
    /\ ing.chunk_size = 3
    /\ ing.overlap = 1
    /\ ing.starts = <<0, 2, 4>>
    /\ ing.chunks[2] = SubSeq(ing.text, 3, 5)

\* ceil(a / b) for b > 0
Ceil(a, b) == (a + b - 1) \div b

\* C14: the number of windows is ceil((len - O) / (L - O)), and 1 when the
\* text is shorter than L.
WindowCountIsCeil ==
    Chunked =>
        Len(ing.chunks) =
            IF Len(ing.text) < ing.chunk_size THEN 1
            ELSE Ceil(Len(ing.text) - ing.overlap,
                      ing.chunk_size - ing.overlap)

----------------------------------------------------------------------------
(* Properties of the extraction loop (SpecIngest) *)

\* the variables the first n calls of the oracle proposed, in call order and
\* in the order of each answer, with their keys normalised; a call that did
\* not answer with JSON proposed nothing
RECURSIVE Proposed(_)
Proposed(n) ==
    IF n = 0 THEN <<>>
    ELSE LET o == ing.calls[n].outcome
             vs == IF o.kind = "json" /\ o.result.variables # None
                   THEN o.result.variables[1] ELSE <<>>
         IN  Proposed(n - 1) \o
               [j \in 1..Len(vs) |->
                  [key |-> IF vs[j].key = None THEN <<>>
                           ELSE to_snake_case(vs[j].key[1]),
                   label |-> vs[j].label]]

\* the entries whose key no earlier entry has, in order
RECURSIVE FirstOccurrences(_, _)
FirstOccurrences(seq, j) ==
    IF j > Len(seq) THEN <<>>
    ELSE (IF \A k \in 1..(j - 1) : seq[k].key # seq[j].key
          THEN <<seq[j]>> ELSE <<>>)
           \o FirstOccurrences(seq, j + 1)

\* lowercase letters, digits and single underscores between them
IsSnakeCase(key) ==
    /\ \A j \in 1..Len(key) : key[j] \in LowerOrDigit \cup {"_"}
    /\ key # <<>> => key[1] # "_" /\ key[Len(key)] # "_"
    /\ \A j \in 1..(Len(key) - 1) : ~(key[j] = "_" /\ key[j + 1] = "_")

\* the calls of the oracle that returned
Returned == IF ing.pc = "failed" /\ ing.i < Len(ing.calls)
            THEN Len(ing.calls) - 1 ELSE Len(ing.calls)

\* C15: the variable list is the first-occurrence deduplication of all
\* proposals in chunk order: no two entries have the same normalised key,
\* the entry of a key is the earliest proposal of it, entries are in
\* first-seen order; the stored template has this list.
FirstOccurrenceWins ==
    (Chunked /\ ing.pc # "failed") =>
        /\ ing.all_variables = FirstOccurrences(Proposed(Len(ing.calls)), 1)
        /\ \A j, k \in 1..Len(ing.all_variables) :
              j # k => ing.all_variables[j].key # ing.all_variables[k].key
        /\ \A j \in 1..Len(ing.all_variables) :
              IsSnakeCase(ing.all_variables[j].key)
        /\ ing.pc = "done" =>
              ing.template[1].variables = ing.all_variables

\* C15 witness: an ingestion ended in which a later window proposed the key
\* a_b again; the entry of the first window survived, ahead of the key b
LaterProposalDiscarded ==
    /\ ing.pc = "done"
    /\ Len(ing.calls) >= 2
    /\ ing.template[1].variables =
          << [key |-> <<"a", "_", "b">>, label |-> "1"],
             [key |-> <<"b">>, label |-> "2"] >>
    /\ \E j \in 1..Len(Proposed(Len(ing.calls))) :
          Proposed(Len(ing.calls))[j] = [key |-> <<"a", "_", "b">>, label |-> "2"]

\* C16: a call of the extraction oracle that fails on a window (its answer
\* does not parse, or the call itself fails) does not end the ingestion: the
\* loop goes on to the next window with the variables accumulated so far
\* unchanged.
ExtractionFailureKeepsGoing ==
    [][(Len(ing'.calls) = Len(ing.calls) + 1
          /\ ing'.calls[Len(ing'.calls)].outcome.kind # "json") =>
        /\ ing'.pc = "extracting"
        /\ ing'.i = ing.i + 1
        /\ ing'.all_variables = ing.all_variables]_vars

\* the metadata of a returned answer, with the defaults of lines 72-74
DocType(o) ==
    IF o.kind = "json" /\ o.result.doc_type # None
    THEN o.result.doc_type[1] ELSE "unknown"

Jurisdiction(o) ==
    IF o.kind = "json" /\ o.result.jurisdiction # None
    THEN o.result.jurisdiction[1] ELSE ""

Tags(o) ==
    IF o.kind = "json" /\ o.result.tags # None
    THEN o.result.tags[1] ELSE <<>>

\* C19: once the first window's call has returned, the document type, the
\* jurisdiction and the tags are those of its answer (the placeholders when
\* it did not parse), whatever later windows answer, and the stored template
\* has them.
MetadataFromFirstWindow ==
    (Chunked /\ Returned >= 1) =>
        /\ ing.doc_type = DocType(ing.calls[1].outcome)
        /\ ing.jurisdiction = Jurisdiction(ing.calls[1].outcome)
        /\ ing.tags = Tags(ing.calls[1].outcome)
        /\ ing.pc = "done" =>
              /\ ing.template[1].doc_type = ing.doc_type
              /\ ing.template[1].jurisdiction = ing.jurisdiction
              /\ ing.template[1].tags = ing.tags

\* C19 witness: the first window did not parse, a later window answered
\* with metadata of its own, and the template stored has the placeholders
LaterMetadataIgnored ==
    /\ ing.pc = "done"
    /\ Len(ing.calls) >= 2
    /\ ing.calls[1].outcome.kind = "unparseable"
    /\ DocType(ing.calls[2].outcome) = "nda"
    /\ ing.template[1].doc_type = "unknown"
    /\ ing.template[1].tags = <<>>

\* C20: the oracle is called once per window, in window order: the calls so
\* far are for the first windows, each with its chunk; the first call is
\* given no variables, every later call the deduplicated list of what the
\* calls before it proposed; an ingestion that ends has called it for every
\* window.
OneCallPerWindow ==
    Chunked =>
        /\ Len(ing.calls) <= Len(ing.chunks)
        /\ ing.pc = "extracting" => Len(ing.calls) = ing.i
        /\ ing.pc = "done" => Len(ing.calls) = Len(ing.chunks)
        /\ \A j \in 1..Len(ing.calls) :
              /\ ing.calls[j].chunk = ing.chunks[j]
              /\ ing.calls[j].existing_variables =
                    IF j = 1 THEN None
                    ELSE Some(FirstOccurrences(Proposed(j - 1), 1))

\* C20 witness: three windows were processed; the second call was given one
\* variable and the third call two
CallsGivenAccumulatedVariables ==
    /\ ing.pc = "done"
    /\ Len(ing.calls) = 3
    /\ ing.calls[1].existing_variables = None
    /\ Len(ing.calls[2].existing_variables[1]) = 1
    /\ Len(ing.calls[3].existing_variables[1]) = 2

----------------------------------------------------------------------------
(* Properties of every step (Spec) *)

\* C21: a match, create, update_answers, generate or get request issues at
\* most one call to an external oracle.
AtMostOneOracleCall ==
    /\ Len(last.calls) <= 1
    /\ Len(m.calls) <= 1

\* what generate renders for a stored row: the replace loop over the
\* template file with the row's answers
Rendering(row) == RenderLoop(FileText(row.template), get_answers(row))

\* C22: with requests handled one at a time, a completed instance holds the
\* draft that is the rendering of its template with its current answers, and
\* a step that changes the answers of an instance does not leave it
\* completed.
CompletedHoldsCurrentDraft ==
    /\ [](\A i \in DOMAIN db :
            db[i].status = "completed" =>
                db[i].draft_md = Some(Rendering(db[i])))
    /\ [][\A i \in DOMAIN db :
            get_answers(db'[i]) # get_answers(db[i]) =>
                db'[i].status # "completed"]_vars

\* C22 witness: an instance that was updated after a generate was generated
\* again and holds the draft of its answers
CompletedAfterUpdateAndGenerate ==
    /\ Handled("generate")
    /\ last.pre = "in_progress"
    /\ db[last.id].status = "completed"
    /\ Len(get_answers(db[last.id])) = 2
    /\ db[last.id].draft_md = Some(Rendering(db[last.id]))

\* the answer maps with the keys and values of d, in every order
Reorderings(d) ==
    { e \in Dicts :
        /\ DictKeys(e) = DictKeys(d)
        /\ \A k \in DictKeys(d) : DictGet(e, k) = DictGet(d, k) }

\* C26: the text generate produces does not depend on the order in which
\* the keys of the answer map are processed: every order gives the stored
\* draft, which is the template text with all tokens substituted at once.
DraftIsOrderIndependent ==
    Handled("generate") =>
        \A e \in Reorderings(get_answers(db[last.id])) :
            /\ db[last.id].draft_md
                 = Some(RenderLoop(FileText(db[last.id].template), e))
            /\ db[last.id].draft_md
                 = Some(Substitute(FileText(db[last.id].template), e))

----------------------------------------------------------------------------
(* Overlapping generate and update_answers (SpecConc) *)

\* C23: once the overlapping requests have committed, no instance is
\* completed with a stored draft that was rendered from answers other than
\* the answers it now holds.
NoStaleCompletedDraft ==
    (\A s \in Slots : sess[s].pc # "loaded") =>
        \A i \in DOMAIN db :
            db[i].status = "completed" =>
                db[i].draft_md = Some(Rendering(db[i]))

----------------------------------------------------------------------------
(* The answer of the judgment oracle (SpecMatch) *)

\* the number in a field of the oracle's answer that holds one
Given(field) == field[2]

IsNum(field) == field[1] = "num"

\* the index match_template is given: the oracle's, or 0 when the oracle
\* failed or named none
IndexGiven ==
    IF m.llm # None /\ IsNum(m.llm[1].best_match_index)
    THEN Given(m.llm[1].best_match_index) ELSE 0

\* C24: whatever index the judgment oracle returns (outside the candidate
\* list, negative, or any index when no template has an embedding), match
\* returns a result, and a non-null best_match is the candidate at that
\* zero-based position of the candidate list.
MatchToleratesAnyIndex ==
    Called("match_templates") =>
        /\ m.outcome = "ok"
        /\ m.best_match # None =>
              /\ IndexGiven \in 0..(Len(m.top) - 1)
              /\ m.best_match = Some(m.top[IndexGiven + 1].template)

\* C25: when the oracle supplies a numeric confidence c (0 included) and a
\* numeric index i of a candidate (0 included), the result reports
\* confidence c and candidate i, and the search is decided on c.
SuppliedValuesAreUsed ==
    (Called("match_templates") /\ m.llm # None
        /\ IsNum(m.llm[1].confidence) /\ IsNum(m.llm[1].best_match_index)
        /\ Given(m.llm[1].best_match_index) \in 0..(Len(m.top) - 1)) =>
        /\ m.outcome = "ok"
        /\ m.confidence = Given(m.llm[1].confidence)
        /\ m.best_match
             = Some(m.top[Given(m.llm[1].best_match_index) + 1].template)
        /\ Called("search") <=>
              /\ m.include_web_search
              /\ settings.EXA_API_KEY
              /\ Given(m.llm[1].confidence) < settings.MIN_CONFIDENCE_THRESHOLD

----------------------------------------------------------------------------
(* Termination of chunk_text (SpecChunk) *)

\* C27: with 0 <= O < L chunk_text returns for every text, and each pass of
\* its loop moves the start offset forward; with O >= L a pass never moves
\* it forward and the loop does not end on a text that is not empty; for the
\* empty text one empty window is returned and the ingestion makes one
\* extraction call.
ChunkingTerminates ==
    /\ (ing.overlap < ing.chunk_size) ~> (ing.pc # "chunking")
    /\ [][(ing'.pc = "chunking" /\ Len(ing'.chunks) = Len(ing.chunks) + 1) =>
            IF ing.overlap < ing.chunk_size
            THEN ing'.start > ing.start
            ELSE ing'.start <= ing.start]_vars
    /\ []((ing.overlap >= ing.chunk_size /\ ing.text # <<>>) =>
            ing.pc = "chunking")
    /\ []((Chunked /\ ing.text = <<>>) => ing.chunks = << <<>> >>)
    /\ []((ing.pc = "done" /\ ing.text = <<>>) => Len(ing.calls) = 1)

\* C27 witness: the loop ended on a text of 5 characters cut with L = 2 and
\* O = 1, after five passes
LoopEndedAfterFivePasses ==
    /\ Chunked
    /\ Len(ing.text) = 5
    /\ ing.chunk_size = 2
    /\ ing.overlap = 1
    /\ ing.starts = <<0, 1, 2, 3, 4>>
    /\ ing.start = 5

====
